---- MODULE Spec2Model ----
(***************************************************************************)
(* Model of the MMOTop voting automation (main.py, settings.py).           *)
(*                                                                         *)
(* The program is one sequential process.  Its state is the position of    *)
(* the process (pc), the configuration dictionary, the MMOTopAutomation    *)
(* object, the browser session held by the `with SB(...)` block, and the   *)
(* exception in flight.  Every call into the browser driver is one step    *)
(* whose outcome (normal return, or one of the exception classes) is       *)
(* chosen by the environment.  The page operations invoked, the driver     *)
(* calls made, the log records written and the except clauses entered are  *)
(* recorded in the order in which they happen.                             *)
(***************************************************************************)
EXTENDS Naturals, Sequences, FiniteSets

VARIABLES environ, config, automation, session, pc, exc, calls, drv, log, caught

vars == <<environ, config, automation, session, pc, exc, calls, drv, log, caught>>

(***************************************************************************)
(* Values                                                                  *)
(***************************************************************************)
None == "None"

Unset == "<unset>"

OK == "ok"

NoSuchElementException == "NoSuchElementException"

TimeoutException == "TimeoutException"

ElementNotVisibleException == "ElementNotVisibleException"

\* any exception class that the entry point has no handler for
WebDriverException == "WebDriverException"

Raises == {NoSuchElementException, TimeoutException, ElementNotVisibleException,
           WebDriverException}

Outcomes == {OK} \cup Raises

\* values the three environment variables can hold when they are set
EnvStrings == {"", "alice"}

EnvNames == {"mmotop_login", "mmotop_password", "sirus_account_name"}

(***************************************************************************)
(* settings.py                                                             *)
(***************************************************************************)
getenv(env, name, default) == IF env[name] = Unset THEN default ELSE env[name]

settings_config(env) ==
    [vote_url           |-> "https://wow.mmotop.ru/servers/5130/votes/new",
     user_name          |-> getenv(env, "mmotop_login", ""),
     user_password      |-> getenv(env, "mmotop_password", ""),
     server_rate        |-> "x2",
     sirus_account_name |-> getenv(env, "sirus_account_name", ""),
     browser            |-> "chrome"]

(***************************************************************************)
(* MMOTopAutomation.__init__                                               *)
(***************************************************************************)
MMOTopAutomation_init(vote_url, user_name, user_password, server_rate, sirus_account_name, browser) ==
    [vote_url           |-> vote_url,
     username           |-> user_name,
     password           |-> user_password,
     server_rate        |-> server_rate,
     sirus_account_name |-> sirus_account_name,
     browser            |-> browser]

(***************************************************************************)
(* Log records and history records                                         *)
(***************************************************************************)
Info(msg, args) == [level |-> "INFO", msg |-> msg, args |-> args]

Error(msg, args) == [level |-> "ERROR", msg |-> msg, args |-> args]

Call(op, args) == [op |-> op, args |-> args]

DriverCall(site, call, args, o) ==
    [at |-> site, call |-> call, args |-> args, outcome |-> o]

Caught(handler, k) == [handler |-> handler, kind |-> k]

(***************************************************************************)
(* Control flow after a driver call.  A result names the next position,    *)
(* the exception in flight, and the log records and except clauses the     *)
(* transfer of control produces.                                           *)
(***************************************************************************)
Ret(next) == [pc |-> next, exc |-> None, log |-> <<>>, caught |-> <<>>]

\* an exception that no try statement inside the with block catches unwinds
\* to the exit of the with block
Propagate(k) == [pc |-> "run.exit", exc |-> k, log |-> <<>>, caught |-> <<>>]

\* mutant of no_try: a missing element is swallowed and the run goes on
no_try_swallows(k, next) ==
    IF k \in {OK, NoSuchElementException} THEN Ret(next) ELSE Propagate(k)

\* a statement of the with block that is inside no try statement
no_try(k, next) == IF k = OK THEN Ret(next) ELSE Propagate(k)

\* mutant of run_try: the slider challenge and the vote follow the try
\* statement instead of being its except clause
run_try_falls_through(k) ==
    IF k \in {OK, NoSuchElementException}
    THEN [pc     |-> "solve_qaptcha.wait_for_element_present",
          exc    |-> None,
          log    |-> <<Info("Not voted today yet.", <<>>)>>,
          caught |-> IF k = OK THEN <<>> ELSE <<Caught("run", k)>>]
    ELSE Propagate(k)

\* mutant of run_try: the except clause votes without the slider challenge
run_try_skips_qaptcha(k) ==
    IF k = OK THEN Ret("run.exit")
    ELSE IF k = NoSuchElementException
         THEN [pc     |-> "vote.execute_script",
               exc    |-> None,
               log    |-> <<Info("Not voted today yet.", <<>>)>>,
               caught |-> <<Caught("run", k)>>]
         ELSE Propagate(k)

\* mutant of run_try: the except clause also catches TimeoutException
run_try_catches_timeout(k) ==
    IF k = OK THEN Ret("run.exit")
    ELSE IF k \in {NoSuchElementException, TimeoutException}
         THEN [pc     |-> "solve_qaptcha.wait_for_element_present",
               exc    |-> None,
               log    |-> <<Info("Not voted today yet.", <<>>)>>,
               caught |-> <<Caught("run", k)>>]
         ELSE Propagate(k)

\* try: page.log_time_until_next_vote()  except NoSuchElementException: ...
run_try(k) ==
    IF k = OK THEN Ret("run.exit")
    ELSE IF k = NoSuchElementException
         THEN [pc     |-> "solve_qaptcha.wait_for_element_present",
               exc    |-> None,
               log    |-> <<Info("Not voted today yet.", <<>>)>>,
               caught |-> <<Caught("run", k)>>]
         ELSE Propagate(k)

\* mutant of solve_cloudflare_captcha_try: no except clause around the
\* first marker lookup
solve_cloudflare_captcha_try_uncaught(k) ==
    IF k = OK THEN Ret("vote.reconnect") ELSE Propagate(k)

\* mutant of solve_cloudflare_captcha_try: the iframe is clicked whether or
\* not the marker was found
solve_cloudflare_captcha_try_always_clicks(k) ==
    IF k = OK THEN Ret("_solve_cloudflare_captcha.uc_click")
    ELSE IF k = NoSuchElementException
         THEN [pc     |-> "_solve_cloudflare_captcha.uc_click",
               exc    |-> None,
               log    |-> <<>>,
               caught |-> <<Caught("_solve_cloudflare_captcha", k)>>]
         ELSE Propagate(k)

\* try: find_element(marker)  except NoSuchElementException: uc_click(frame) ...
solve_cloudflare_captcha_try(k) ==
    IF k = OK THEN Ret("vote.reconnect")
    ELSE IF k = NoSuchElementException
         THEN [pc     |-> "_solve_cloudflare_captcha.uc_click",
               exc    |-> None,
               log    |-> <<>>,
               caught |-> <<Caught("_solve_cloudflare_captcha", k)>>]
         ELSE Propagate(k)

\* mutant of vote_try: no except clause around the submit click
vote_try_uncaught(k) ==
    IF k = OK
    THEN [pc |-> "run.exit", exc |-> None,
          log |-> <<Info("Vote successful!", <<>>)>>, caught |-> <<>>]
    ELSE Propagate(k)

\* try: click(submit); info; sleep  except NoSuchElementException: error
vote_try(k) ==
    IF k = OK
    THEN [pc |-> "run.exit", exc |-> None,
          log |-> <<Info("Vote successful!", <<>>)>>, caught |-> <<>>]
    ELSE IF k = NoSuchElementException
         THEN [pc     |-> "run.exit",
               exc    |-> None,
               log    |-> <<Error("Captcha not solved!", <<>>)>>,
               caught |-> <<Caught("vote", k)>>]
         ELSE Propagate(k)

\* mutant of run_vote_args: the two arguments are passed in the wrong order
run_vote_args_swapped(self) == <<self.sirus_account_name, self.server_rate>>

\* the arguments run passes to page.vote
run_vote_args(self) == <<self.server_rate, self.sirus_account_name>>

\* mutant of run_exit_session: the browser is closed at the end of the block
\* only, not when an exception leaves it
run_exit_session_no_cleanup(e) == IF e = None THEN "closed" ELSE "open"

\* leaving the with block closes the browser, whether or not an exception
\* is in flight
run_exit_session(e) == "closed"

\* mutant of main_try: a timeout makes the entry point run the workflow again
main_try_retries(k) ==
    IF k = NoSuchElementException
    THEN [pc |-> "exit", exc |-> None,
          log |-> <<Error("Element not found: %s", <<k>>)>>,
          caught |-> <<Caught("__main__", k)>>]
    ELSE IF k = TimeoutException
    THEN [pc |-> "run.SB", exc |-> None,
          log |-> <<Error("A timeout occurred: %s", <<k>>)>>,
          caught |-> <<Caught("__main__", k)>>]
    ELSE IF k = ElementNotVisibleException
    THEN [pc |-> "exit", exc |-> None,
          log |-> <<Error("Element not visible: %s", <<k>>)>>,
          caught |-> <<Caught("__main__", k)>>]
    ELSE [pc |-> "traceback", exc |-> k, log |-> <<>>, caught |-> <<>>]

\* the three except clauses of the entry point
main_try(k) ==
    IF k = NoSuchElementException
    THEN [pc |-> "exit", exc |-> None,
          log |-> <<Error("Element not found: %s", <<k>>)>>,
          caught |-> <<Caught("__main__", k)>>]
    ELSE IF k = TimeoutException
    THEN [pc |-> "exit", exc |-> None,
          log |-> <<Error("A timeout occurred: %s", <<k>>)>>,
          caught |-> <<Caught("__main__", k)>>]
    ELSE IF k = ElementNotVisibleException
    THEN [pc |-> "exit", exc |-> None,
          log |-> <<Error("Element not visible: %s", <<k>>)>>,
          caught |-> <<Caught("__main__", k)>>]
    ELSE [pc |-> "traceback", exc |-> k, log |-> <<>>, caught |-> <<>>]

(***************************************************************************)
(* One step of the process: the driver call `call(args)` made at position  *)
(* `site` has outcome o; `invoked` are the page operations entered and     *)
(* `before`/`after` the log records written around the call; res is the    *)
(* transfer of control.                                                    *)
(***************************************************************************)
Step(site, invoked, before, call, args, o, after, res) ==
    /\ pc = site
    /\ calls' = calls \o invoked
    /\ drv' = Append(drv, DriverCall(site, call, args, o))
    /\ log' = log \o before \o (IF o = OK THEN after ELSE <<>>) \o res.log
    /\ caught' = caught \o res.caught
    /\ pc' = res.pc
    /\ exc' = res.exc
    /\ UNCHANGED <<environ, config, automation, session>>

(***************************************************************************)
(* Initial state: the module settings has been imported.                   *)
(***************************************************************************)
Init ==
    /\ environ \in [EnvNames -> EnvStrings \cup {Unset}]
    /\ config = settings_config(environ)
    /\ automation = None
    /\ session = "none"
    /\ pc = "main"
    /\ exc = None
    /\ calls = <<>>
    /\ drv = <<>>
    /\ log = <<>>
    /\ caught = <<>>

(***************************************************************************)
(* __main__ and MMOTopAutomation.run                                       *)
(***************************************************************************)
\* automation = MMOTopAutomation(**config); automation.run()
main ==
    /\ pc = "main"
    /\ automation' = MMOTopAutomation_init(config.vote_url, config.user_name,
                         config.user_password, config.server_rate,
                         config.sirus_account_name, config.browser)
    /\ pc' = "run.SB"
    /\ UNCHANGED <<environ, config, session, exc, calls, drv, log, caught>>

\* with SB(browser=self.browser, ...) as sb:
run_enter ==
    /\ pc = "run.SB"
    /\ \E o \in Outcomes :
          IF o = OK
          THEN /\ session' = "open"
               /\ pc' = "open_vote_page.uc_open_with_reconnect"
               /\ exc' = None
          ELSE /\ session' = session
               /\ pc' = "main.except"
               /\ exc' = o
    /\ UNCHANGED <<environ, config, automation, calls, drv, log, caught>>

\* the end of the with block, reached by falling off its end or by an
\* exception
run_exit ==
    /\ pc = "run.exit"
    /\ session' = run_exit_session(exc)
    /\ pc' = IF exc = None THEN "exit" ELSE "main.except"
    /\ UNCHANGED <<environ, config, automation, exc, calls, drv, log, caught>>

\* except NoSuchElementException / TimeoutException / ElementNotVisibleException
main_except ==
    /\ pc = "main.except"
    /\ LET res == main_try(exc) IN
          /\ pc' = res.pc
          /\ exc' = res.exc
          /\ log' = log \o res.log
          /\ caught' = caught \o res.caught
    /\ UNCHANGED <<environ, config, automation, session, calls, drv>>

(***************************************************************************)
(* MMOTopPage.open_vote_page                                               *)
(***************************************************************************)
open_vote_page ==
    \E o \in Outcomes :
        Step("open_vote_page.uc_open_with_reconnect",
             <<Call("open_vote_page", <<automation.vote_url>>)>>,
             <<Info("Opening vote page: %s", <<automation.vote_url>>)>>,
             "uc_open_with_reconnect", <<automation.vote_url>>, o,
             <<>>, no_try(o, "login.uc_click"))

(***************************************************************************)
(* MMOTopPage.login                                                        *)
(***************************************************************************)
login_uc_click ==
    \E o \in Outcomes :
        Step("login.uc_click",
             <<Call("login", <<automation.username, automation.password>>)>>,
             <<Info("Logging in...", <<>>)>>,
             "uc_click", <<"//a[@href='https://mmotop.ru/users/sign_in']">>, o,
             <<>>, no_try(o, "login.send_keys_email"))

login_send_keys_email ==
    \E o \in Outcomes :
        Step("login.send_keys_email", <<>>, <<>>,
             "send_keys", <<"//input[@id='user_email']", automation.username>>, o,
             <<>>, no_try(o, "login.send_keys_password"))

login_send_keys_password ==
    \E o \in Outcomes :
        Step("login.send_keys_password", <<>>, <<>>,
             "send_keys", <<"//input[@id='user_password']", automation.password>>, o,
             <<>>, no_try(o, "login.uc_click_sign_in"))

login_uc_click_sign_in ==
    \E o \in Outcomes :
        Step("login.uc_click_sign_in", <<>>, <<>>,
             "uc_click", <<"//input[@name='sign_in']">>, o,
             <<>>, no_try(o, "log_time_until_next_vote.wait_for_element_present"))

(***************************************************************************)
(* MMOTopPage.log_time_until_next_vote, called inside run's try            *)
(***************************************************************************)
log_time_until_next_vote_wait ==
    \E o \in Outcomes :
        Step("log_time_until_next_vote.wait_for_element_present",
             <<Call("log_time_until_next_vote", <<>>)>>,
             <<Info("Checking if already voted today...", <<>>)>>,
             "wait_for_element_present",
             <<"xpath", "//span[@class='countdown_row countdown_amount']">>, o,
             <<>>,
             IF o = OK THEN Ret("log_time_until_next_vote.text") ELSE run_try(o))

log_time_until_next_vote_text ==
    \E o \in Outcomes :
        Step("log_time_until_next_vote.text", <<>>, <<>>,
             "text", <<>>, o,
             <<Info("Time remaining until next vote: %s", <<"countdown_text">>)>>,
             run_try(o))

(***************************************************************************)
(* MMOTopPage.solve_qaptcha, called inside run's except clause             *)
(***************************************************************************)
solve_qaptcha_wait ==
    \E o \in Outcomes :
        Step("solve_qaptcha.wait_for_element_present",
             <<Call("solve_qaptcha", <<>>)>>, <<>>,
             "wait_for_element_present",
             <<"//div[@class='Slider ui-draggable ui-draggable-handle']">>, o,
             <<>>, no_try(o, "solve_qaptcha.drag_and_drop_by_offset"))

solve_qaptcha_drag ==
    \E o \in Outcomes :
        Step("solve_qaptcha.drag_and_drop_by_offset", <<>>, <<>>,
             "drag_and_drop_by_offset", <<"slider", "478", "0">>, o,
             <<Info("Qaptcha solved!", <<>>)>>,
             no_try(o, "solve_qaptcha.reconnect"))

solve_qaptcha_reconnect ==
    \E o \in Outcomes :
        Step("solve_qaptcha.reconnect", <<>>, <<>>,
             "reconnect", <<"3">>, o,
             <<>>, no_try(o, "vote.execute_script"))

(***************************************************************************)
(* MMOTopPage.vote and MMOTopPage._solve_cloudflare_captcha                *)
(***************************************************************************)
vote_execute_script ==
    \E o \in Outcomes :
        LET a == run_vote_args(automation) IN
        Step("vote.execute_script",
             <<Call("vote", a)>>,
             <<Info("Voting for %s on server rate %s...", <<a[2], a[1]>>)>>,
             "execute_script", <<"window.scrollTo(0, 10000);">>, o,
             <<>>, no_try(o, "vote.uc_click"))

vote_uc_click ==
    \E o \in Outcomes :
        Step("vote.uc_click", <<>>, <<>>,
             "uc_click",
             <<"//td[contains(text(), '%s')]/../td/input[@type='radio']",
               calls[Len(calls)].args[1]>>, o,
             <<>>, no_try(o, "vote.find_element"))

vote_find_element ==
    \E o \in Outcomes :
        Step("vote.find_element", <<>>, <<>>,
             "find_element", <<"xpath", "//div[@id='charname']/input">>, o,
             <<>>, no_try(o, "vote.clear"))

vote_clear ==
    \E o \in Outcomes :
        Step("vote.clear", <<>>, <<>>,
             "clear", <<>>, o,
             <<>>, no_try(o, "vote.send_keys"))

vote_send_keys ==
    \E o \in Outcomes :
        Step("vote.send_keys", <<>>, <<>>,
             "send_keys", <<calls[Len(calls)].args[2]>>, o,
             <<>>, no_try(o, "_solve_cloudflare_captcha.find_element"))

solve_cloudflare_captcha_find_frame ==
    \E o \in Outcomes :
        Step("_solve_cloudflare_captcha.find_element",
             <<Call("_solve_cloudflare_captcha", <<>>)>>, <<>>,
             "find_element", <<"//iframe[contains(@src, 'cloudflare.com')]", "xpath">>, o,
             <<>>, no_try(o, "_solve_cloudflare_captcha.uc_switch_to_frame"))

solve_cloudflare_captcha_switch ==
    \E o \in Outcomes :
        Step("_solve_cloudflare_captcha.uc_switch_to_frame", <<>>, <<>>,
             "uc_switch_to_frame", <<"frame">>, o,
             <<>>, no_try(o, "_solve_cloudflare_captcha.find_marker"))

solve_cloudflare_captcha_find_marker ==
    \E o \in Outcomes :
        Step("_solve_cloudflare_captcha.find_marker", <<>>, <<>>,
             "find_element", <<"//div[contains(@style, 'visible')]", "xpath">>, o,
             <<>>, solve_cloudflare_captcha_try(o))

solve_cloudflare_captcha_uc_click ==
    \E o \in Outcomes :
        Step("_solve_cloudflare_captcha.uc_click", <<>>, <<>>,
             "uc_click", <<"frame">>, o,
             <<>>, no_try(o, "_solve_cloudflare_captcha.find_marker_again"))

solve_cloudflare_captcha_find_marker_again ==
    \E o \in Outcomes :
        Step("_solve_cloudflare_captcha.find_marker_again", <<>>, <<>>,
             "find_element", <<"//div[contains(@style, 'visible')]", "xpath">>, o,
             <<>>, no_try(o, "vote.reconnect"))

vote_reconnect ==
    \E o \in Outcomes :
        Step("vote.reconnect", <<>>, <<>>,
             "reconnect", <<"3">>, o,
             <<>>, no_try(o, "vote.click"))

vote_click ==
    \E o \in Outcomes :
        Step("vote.click", <<>>, <<>>,
             "click", <<"//div/input[@type='submit']">>, o,
             <<>>, vote_try(o))

(***************************************************************************)
(* Specification                                                           *)
(***************************************************************************)
Next ==
    \/ main
    \/ run_enter
    \/ open_vote_page
    \/ login_uc_click
    \/ login_send_keys_email
    \/ login_send_keys_password
    \/ login_uc_click_sign_in
    \/ log_time_until_next_vote_wait
    \/ log_time_until_next_vote_text
    \/ solve_qaptcha_wait
    \/ solve_qaptcha_drag
    \/ solve_qaptcha_reconnect
    \/ vote_execute_script
    \/ vote_uc_click
    \/ vote_find_element
    \/ vote_clear
    \/ vote_send_keys
    \/ solve_cloudflare_captcha_find_frame
    \/ solve_cloudflare_captcha_switch
    \/ solve_cloudflare_captcha_find_marker
    \/ solve_cloudflare_captcha_uc_click
    \/ solve_cloudflare_captcha_find_marker_again
    \/ vote_reconnect
    \/ vote_click
    \/ run_exit
    \/ main_except

Spec == Init /\ [][Next]_vars

(***************************************************************************)
(* Vocabulary of the properties                                            *)
(***************************************************************************)
Handled == {NoSuchElementException, TimeoutException, ElementNotVisibleException}

Terminal == pc \in {"exit", "traceback"}

\* positions of the invocations of a page operation in calls
Ops(op) == {i \in 1..Len(calls) : calls[i].op = op}

Invoked(op) == Ops(op) # {}

\* the public page operations invoked, in order
PageOps == SelectSeq([i \in 1..Len(calls) |-> calls[i].op],
                     LAMBDA n : n # "_solve_cloudflare_captcha")

\* positions in drv of the driver calls made at the given sites with one of
\* the given outcomes
CallsAt(sites, outs) ==
    {i \in 1..Len(drv) : drv[i].at \in sites /\ drv[i].outcome \in outs}

LoginSites == {"login.uc_click", "login.send_keys_email",
               "login.send_keys_password", "login.uc_click_sign_in"}

ProbeSites == {"log_time_until_next_vote.wait_for_element_present",
               "log_time_until_next_vote.text"}

VoteSites == {"vote.execute_script", "vote.uc_click", "vote.find_element",
              "vote.clear", "vote.send_keys", "vote.reconnect", "vote.click",
              "_solve_cloudflare_captcha.find_element",
              "_solve_cloudflare_captcha.uc_switch_to_frame",
              "_solve_cloudflare_captcha.find_marker",
              "_solve_cloudflare_captcha.uc_click",
              "_solve_cloudflare_captcha.find_marker_again"}

MarkerSite == "_solve_cloudflare_captcha.find_marker"

FrameClickSite == "_solve_cloudflare_captcha.uc_click"

MarkerAgainSite == "_solve_cloudflare_captcha.find_marker_again"

SubmitSite == "vote.click"

\* the log records written by the except clauses of the entry point
TopLevelRecords ==
    {i \in 1..Len(log) : log[i].msg \in {"Element not found: %s",
                                         "A timeout occurred: %s",
                                         "Element not visible: %s"}}

TopLevelCaught == {j \in 1..Len(caught) : caught[j].handler = "__main__"}

Logged(msg) == \E i \in 1..Len(log) : log[i].msg = msg

ProbeReturned == CallsAt({"log_time_until_next_vote.text"}, {OK}) # {}

ProbeNotFound == CallsAt(ProbeSites, {NoSuchElementException}) # {}

SolveReturned == CallsAt({"solve_qaptcha.reconnect"}, {OK}) # {}

\* the driver call drv[i] raised k and nothing inside the run caught it: it is
\* the last driver call of the process, the exception is on its way to, or
\* was handled by, the except clauses of the entry point
Fatal(i, k) ==
    /\ i = Len(drv)
    /\ pc \in {"run.exit", "main.except", "exit"}
    /\ pc \in {"run.exit", "main.except"} => exc = k /\ TopLevelCaught = {}
    /\ pc = "exit" => /\ Len(caught) > 0
                      /\ caught[Len(caught)] = Caught("__main__", k)
                      /\ Cardinality(TopLevelCaught) = 1

(***************************************************************************)
(* C1: once the countdown probe has returned normally, solve_qaptcha and   *)
(* vote are never invoked; the run leaves the with block with no exception *)
(* and the process ends normally having invoked only open_vote_page, login *)
(* and the probe.                                                          *)
(***************************************************************************)
Thm_C1_AlreadyVotedSkipsVote ==
    ProbeReturned =>
        /\ ~Invoked("solve_qaptcha")
        /\ ~Invoked("vote")
        /\ ~Invoked("_solve_cloudflare_captcha")
        /\ PageOps = <<"open_vote_page", "login", "log_time_until_next_vote">>
        /\ drv[Len(drv)].at = "log_time_until_next_vote.text"
        /\ pc \in {"run.exit", "exit"}
        /\ exc = None
        /\ caught = <<>>

Wit_C1_AlreadyVoted ==
    /\ ProbeReturned
    /\ pc = "exit"
    /\ Logged("Time remaining until next vote: %s")

(***************************************************************************)
(* C2 as stated: in every finished run in which the probe failed with      *)
(* NoSuchElementException there is exactly one solve_qaptcha call followed *)
(* by exactly one vote call.                                               *)
(***************************************************************************)
Orig_C2_ExactlyOneSolveThenVote ==
    (Terminal /\ ProbeNotFound) =>
        /\ Cardinality(Ops("solve_qaptcha")) = 1
        /\ Cardinality(Ops("vote")) = 1
        /\ \A i \in Ops("solve_qaptcha") : \A j \in Ops("vote") : i < j

(***************************************************************************)
(* C2 amended: when the probe fails with NoSuchElementException,           *)
(* solve_qaptcha is invoked exactly once; if it returns normally it is     *)
(* followed by exactly one vote call, and if it raises vote is not         *)
(* invoked.                                                                *)
(***************************************************************************)
Thm_C2_OneSolveThenVoteIfSolved ==
    /\ Cardinality(Ops("solve_qaptcha")) <= 1
    /\ Cardinality(Ops("vote")) <= 1
    /\ (ProbeNotFound /\ pc # "solve_qaptcha.wait_for_element_present") =>
           Cardinality(Ops("solve_qaptcha")) = 1
    /\ (ProbeNotFound /\ SolveReturned /\ pc # "vote.execute_script") =>
           /\ Cardinality(Ops("vote")) = 1
           /\ \A i \in Ops("solve_qaptcha") : \A j \in Ops("vote") : i < j
    /\ ~SolveReturned => ~Invoked("vote")

Wit_C2_SolvedThenVoted ==
    /\ Terminal
    /\ ProbeNotFound
    /\ PageOps = <<"open_vote_page", "login", "log_time_until_next_vote",
                   "solve_qaptcha", "vote">>

(***************************************************************************)
(* C3: a NoSuchElementException, TimeoutException or                       *)
(* ElementNotVisibleException raised by a step of login is caught by no    *)
(* except clause inside run: it is the last driver call, the probe, the    *)
(* slider challenge and vote are never invoked, and the exception reaches  *)
(* the except clauses of the entry point, which are the only ones to       *)
(* handle it.                                                              *)
(***************************************************************************)
Thm_C3_LoginErrorsPropagate ==
    \A i \in CallsAt(LoginSites, Handled) :
        /\ Fatal(i, drv[i].outcome)
        /\ PageOps = <<"open_vote_page", "login">>
        /\ ~Invoked("log_time_until_next_vote")
        /\ ~Invoked("solve_qaptcha")
        /\ ~Invoked("vote")
        /\ \A j \in 1..Len(caught) : caught[j].handler = "__main__"

Wit_C3_LoginTimeoutHandled ==
    /\ pc = "exit"
    /\ CallsAt({"login.send_keys_password"}, {TimeoutException}) # {}
    /\ caught = <<Caught("__main__", TimeoutException)>>

(***************************************************************************)
(* C4: when the submit click raises NoSuchElementException, vote logs      *)
(* "Captcha not solved!" and not "Vote successful!", returns normally, and *)
(* the process ends without any exception reaching the entry point.        *)
(***************************************************************************)
Thm_C4_MissingSubmitIsSoft ==
    CallsAt({SubmitSite}, {NoSuchElementException}) # {} =>
        /\ log[Len(log)] = Error("Captcha not solved!", <<>>)
        /\ Cardinality({i \in 1..Len(log) : log[i].msg = "Captcha not solved!"}) = 1
        /\ ~Logged("Vote successful!")
        /\ drv[Len(drv)].at = SubmitSite
        /\ exc = None
        /\ pc \in {"run.exit", "exit"}
        /\ TopLevelCaught = {}
        /\ TopLevelRecords = {}

Wit_C4_MissingSubmit ==
    /\ pc = "exit"
    /\ CallsAt({SubmitSite}, {NoSuchElementException}) # {}
    /\ Logged("Captcha not solved!")

(***************************************************************************)
(* C5: the browser session opened by run is closed on every exit path: in  *)
(* no terminal state is it open, it is closed in every terminal state of a *)
(* process that performed a page operation, every page operation and       *)
(* driver call happens while it is open, and once closed it stays closed.  *)
(***************************************************************************)
Thm_C5_SessionReleased ==
    /\ [](Terminal => session # "open")
    /\ []((Terminal /\ (calls # <<>> \/ drv # <<>>)) => session = "closed")
    /\ [][(calls' # calls \/ drv' # drv) =>
             (session = "open" /\ session' = "open")]_vars
    /\ [][session = "closed" => session' = "closed"]_vars

Wit_C5_ClosedAfterVoteError ==
    /\ Terminal
    /\ session = "closed"
    /\ CallsAt(VoteSites, {ElementNotVisibleException}) # {}

(***************************************************************************)
(* C6: every vote call receives the server rate and the account name of    *)
(* the configuration, in that order; the fields of the automation object   *)
(* equal the configuration values from its construction on, and neither    *)
(* the configuration nor the object changes during the run.                *)
(***************************************************************************)
Thm_C6_VoteArgsFromConfig ==
    /\ [](\A i \in Ops("vote") :
             calls[i].args = <<config.server_rate, config.sirus_account_name>>)
    /\ [](\A i \in CallsAt({"vote.uc_click"}, Outcomes) :
             drv[i].args[2] = config.server_rate)
    /\ [](\A i \in CallsAt({"vote.send_keys"}, Outcomes) :
             drv[i].args[1] = config.sirus_account_name)
    /\ [](pc # "main" =>
             /\ automation.server_rate = config.server_rate
             /\ automation.sirus_account_name = config.sirus_account_name)
    /\ [](config = settings_config(environ))
    /\ [][config' = config]_vars
    /\ [][pc # "main" => automation' = automation]_vars

Wit_C6_VotedForAlice ==
    /\ Invoked("vote")
    /\ config.sirus_account_name = "alice"
    /\ calls[Len(calls)].op = "_solve_cloudflare_captcha"
    /\ CallsAt({"vote.send_keys"}, {OK}) # {}

(***************************************************************************)
(* C7 as stated: a NoSuchElementException raised by any driver call other  *)
(* than those of the countdown probe is fatal to the run.                  *)
(***************************************************************************)
Orig_C7_OnlyProbeNonFatal ==
    \A i \in 1..Len(drv) :
        (drv[i].outcome = NoSuchElementException /\ drv[i].at \notin ProbeSites)
            => Fatal(i, NoSuchElementException)

\* the except clause that catches a NoSuchElementException raised at a site
HandlerOf(site) ==
    IF site \in ProbeSites THEN "run"
    ELSE IF site = MarkerSite THEN "_solve_cloudflare_captcha"
    ELSE IF site = SubmitSite THEN "vote"
    ELSE "__main__"

(***************************************************************************)
(* C7 amended: exactly three cases treat NoSuchElementException as         *)
(* non-fatal: the countdown probe, the first marker lookup of the iframe   *)
(* challenge and the submit click of vote; each is caught by the except    *)
(* clause around it and never reaches the entry point.  Every other        *)
(* NoSuchElementException raised by a driver call is fatal to the run.     *)
(***************************************************************************)
Thm_C7_ThreeNonFatalCases ==
    /\ \A i \in 1..Len(drv) :
          drv[i].outcome = NoSuchElementException =>
              IF HandlerOf(drv[i].at) = "__main__"
              THEN Fatal(i, NoSuchElementException)
              ELSE /\ \E j \in 1..Len(caught) :
                         caught[j] = Caught(HandlerOf(drv[i].at),
                                            NoSuchElementException)
                   /\ i = Len(drv) => (exc = None /\ pc # "main.except"
                                          /\ pc # "traceback")
    /\ \A j \in 1..Len(caught) :
          caught[j].handler # "__main__" =>
              /\ caught[j].kind = NoSuchElementException
              /\ \E i \in 1..Len(drv) :
                    /\ drv[i].outcome = NoSuchElementException
                    /\ HandlerOf(drv[i].at) = caught[j].handler

Wit_C7_AllThreeCaught ==
    /\ pc = "exit"
    /\ caught = <<Caught("run", NoSuchElementException),
                  Caught("_solve_cloudflare_captcha", NoSuchElementException),
                  Caught("vote", NoSuchElementException)>>

(***************************************************************************)
(* C8: an exception of the three handled classes that escapes run is       *)
(* handled by the entry point: the handler writes exactly one log record,  *)
(* the process ends, nothing is invoked again.  Every page operation and   *)
(* every driver call site is used at most once per process.                *)
(***************************************************************************)
Thm_C8_LoggedOnceNoRetry ==
    /\ [](\A i, j \in 1..Len(calls) : calls[i].op = calls[j].op => i = j)
    /\ [](\A i, j \in 1..Len(drv) : drv[i].at = drv[j].at => i = j)
    /\ [](Cardinality(TopLevelCaught) <= 1 /\ Cardinality(TopLevelRecords) <= 1)
    /\ [](pc = "traceback" => exc \notin Handled)
    /\ []((pc = "exit" /\ TopLevelCaught # {}) =>
             /\ Cardinality(TopLevelRecords) = 1
             /\ log[Len(log)].level = "ERROR"
             /\ Len(log) \in TopLevelRecords
             /\ log[Len(log)].args = <<caught[Len(caught)].kind>>)
    /\ [][(pc = "main.except" /\ exc \in Handled) =>
             /\ pc' = "exit"
             /\ Len(log') = Len(log) + 1
             /\ calls' = calls
             /\ drv' = drv
             /\ session' = session]_vars
    /\ [][Terminal => UNCHANGED vars]_vars

Wit_C8_VoteErrorLoggedOnce ==
    /\ pc = "exit"
    /\ CallsAt(VoteSites, {TimeoutException}) # {}
    /\ Cardinality(TopLevelRecords) = 1
    /\ log[Len(log)] = Error("A timeout occurred: %s", <<TimeoutException>>)

(***************************************************************************)
(* C9 as stated: in a finished run, a found marker means no click of the   *)
(* iframe; an absent marker means exactly one click and exactly one more   *)
(* lookup; a second lookup failing with NoSuchElementException means the   *)
(* submit button is never clicked.                                         *)
(***************************************************************************)
Orig_C9_SingleRetry ==
    Terminal =>
        /\ CallsAt({MarkerSite}, {OK}) # {} =>
               CallsAt({FrameClickSite}, Outcomes) = {}
        /\ CallsAt({MarkerSite}, {NoSuchElementException}) # {} =>
               /\ Cardinality(CallsAt({FrameClickSite}, Outcomes)) = 1
               /\ Cardinality(CallsAt({MarkerAgainSite}, Outcomes)) = 1
        /\ CallsAt({MarkerAgainSite}, {NoSuchElementException}) # {} =>
               CallsAt({SubmitSite}, Outcomes) = {}

(***************************************************************************)
(* C9 amended: a found marker means no click of the iframe; an absent      *)
(* marker means exactly one click, and, if that click returns normally,    *)
(* exactly one more lookup of the marker (none if the click raises); a     *)
(* second lookup failing with NoSuchElementException is fatal, so the      *)
(* submit button is never clicked.                                         *)
(***************************************************************************)
Thm_C9_SingleRetryIfClickReturns ==
    /\ Cardinality(CallsAt({MarkerSite}, Outcomes)) <= 1
    /\ Cardinality(CallsAt({FrameClickSite}, Outcomes)) <= 1
    /\ Cardinality(CallsAt({MarkerAgainSite}, Outcomes)) <= 1
    /\ CallsAt({MarkerSite}, {NoSuchElementException}) = {} =>
           /\ CallsAt({FrameClickSite}, Outcomes) = {}
           /\ CallsAt({MarkerAgainSite}, Outcomes) = {}
    /\ (CallsAt({MarkerSite}, {NoSuchElementException}) # {}
            /\ pc # FrameClickSite) =>
           Cardinality(CallsAt({FrameClickSite}, Outcomes)) = 1
    /\ (CallsAt({FrameClickSite}, {OK}) # {} /\ pc # MarkerAgainSite) =>
           Cardinality(CallsAt({MarkerAgainSite}, Outcomes)) = 1
    /\ CallsAt({FrameClickSite}, {OK}) = {} =>
           CallsAt({MarkerAgainSite}, Outcomes) = {}
    /\ \A i \in CallsAt({MarkerAgainSite}, {NoSuchElementException}) :
           /\ Fatal(i, NoSuchElementException)
           /\ CallsAt({SubmitSite}, Outcomes) = {}

Wit_C9_SecondLookupFails ==
    /\ pc = "exit"
    /\ CallsAt({MarkerSite}, {NoSuchElementException}) # {}
    /\ CallsAt({FrameClickSite}, {OK}) # {}
    /\ CallsAt({MarkerAgainSite}, {NoSuchElementException}) # {}

(***************************************************************************)
(* C10: a TimeoutException or ElementNotVisibleException from the probe    *)
(* goes to the entry point without solve_qaptcha or vote being invoked;    *)
(* vote is invoked only after open_vote_page, login, a probe that failed   *)
(* with NoSuchElementException and a solve_qaptcha that returned, in that  *)
(* order.                                                                  *)
(***************************************************************************)
Thm_C10_OnlyNotFoundMakesEligible ==
    /\ \A i \in CallsAt(ProbeSites, {TimeoutException, ElementNotVisibleException}) :
          /\ Fatal(i, drv[i].outcome)
          /\ ~Invoked("solve_qaptcha")
          /\ ~Invoked("vote")
          /\ PageOps = <<"open_vote_page", "login", "log_time_until_next_vote">>
    /\ Invoked("vote") =>
          /\ PageOps = <<"open_vote_page", "login", "log_time_until_next_vote",
                         "solve_qaptcha", "vote">>
          /\ CallsAt({"open_vote_page.uc_open_with_reconnect"}, {OK}) # {}
          /\ CallsAt({"login.uc_click_sign_in"}, {OK}) # {}
          /\ ProbeNotFound
          /\ ~ProbeReturned
          /\ CallsAt(ProbeSites, Raises \ {NoSuchElementException}) = {}
          /\ SolveReturned
          /\ \A p \in CallsAt(ProbeSites, {NoSuchElementException}) :
                \A q \in CallsAt({"solve_qaptcha.reconnect"}, {OK}) :
                    \A r \in CallsAt({"vote.execute_script"}, Outcomes) :
                        p < q /\ q < r

Wit_C10_ProbeTimeoutAborts ==
    /\ pc = "exit"
    /\ CallsAt(ProbeSites, {TimeoutException}) # {}
    /\ caught = <<Caught("__main__", TimeoutException)>>

====
